---- MODULE Spec2Model ----
(***************************************************************************)
(* Model of hunyaochong/react-express-app.                                 *)
(*                                                                         *)
(*   server/index.js        Express server: CLIENT_URL allowlist, the cors *)
(*                          origin callback, GET /api/home.                *)
(*   client/pages/index.tsx IndexPage: useState x4, the useEffect that     *)
(*                          runs load() and returns the abort cleanup, and *)
(*                          the render.                                    *)
(*                                                                         *)
(* JavaScript strings are sequences of text chunks (server side: single    *)
(* characters, so that split/trim/includes are computed, not assumed).     *)
(* JavaScript values are records [t |-> type tag, v |-> payload].          *)
(***************************************************************************)
EXTENDS Integers, Sequences, FiniteSets, TLC

VARIABLES
    \* ---- server/index.js ----
    clientUrlEnv,     \* process.env.CLIENT_URL (line 10)
    allowedOrigins,   \* module-level const (lines 11-17)
    listening,        \* app.listen has been called and the process is alive
    stage,            \* position of the request being handled
    reqOrigin,        \* Origin header of the request being handled
    corsResult,       \* what the origin callback passed to callback(...)
    response,         \* the response sent for the last request
    rejectedBefore,   \* history: some earlier request was origin-rejected
    \* ---- client/pages/index.tsx ----
    message,          \* useState("")            (line 37)
    people,           \* useState<string[]>([])  (line 38)
    error,            \* useState(null)          (line 39)
    loading,          \* useState(true)          (line 40)
    runs,             \* number of times the effect has run
    effectActive,     \* the effect has run and its cleanup has not
    unmounted,        \* the component has been unmounted
    running,          \* the load() whose synchronous code is executing (0: none)
    pc,               \* per load(): position in the function
    aborted,          \* per load(): controller.signal.aborted
    resp,             \* per load(): the Response of fetch (status, statusText)
    data,             \* per load(): the parsed JSON body
    exc,              \* per load(): the exception caught at line 58
    fetches,          \* per load(): number of fetch("/api/home") calls issued
    pre,              \* history: message/people when the response arrived
    lateSetter,       \* history: a state setter was called after unmount
    view              \* the last rendered output (lines 70-81)

serverVars == <<clientUrlEnv, allowedOrigins, listening, stage, reqOrigin,
                corsResult, response, rejectedBefore>>
clientVars == <<message, people, error, loading, runs, effectActive, unmounted,
                running, pc, aborted, resp, data, exc, fetches, pre,
                lateSetter, view>>
vars == <<serverVars, clientVars>>

----------------------------------------------------------------------------
\* Bounds

MaxEnvLen == 3
MaxOriginLen == 2
MaxRuns == 2

----------------------------------------------------------------------------
\* JavaScript values

Undefined == [t |-> "undefined", v |-> <<>>]
NullV == [t |-> "null", v |-> <<>>]
Str(s) == [t |-> "string", v |-> s]
Arr(a) == [t |-> "array", v |-> a]

\* ToBoolean for the value kinds used here: undefined, null and "" are falsy.
Truthy(x) ==
    CASE x.t = "undefined" -> FALSE
      [] x.t = "null" -> FALSE
      [] x.t = "string" -> x.v # <<>>
      [] OTHER -> TRUE

\* All sequences over S of length at most n.
SeqsUpTo(S, n) == UNION {[1..k -> S] : k \in 0..n}

----------------------------------------------------------------------------
\* server/index.js

EnvChars == {"a", "A", ",", " ", "*"}
OriginChars == {"a", "A", " "}

EnvValues == {Undefined} \cup {Str(s) : s \in SeqsUpTo(EnvChars, MaxEnvLen)}
OriginValues == {Undefined} \cup {Str(s) : s \in SeqsUpTo(OriginChars, MaxOriginLen)}

\* String.prototype.split(",")
RECURSIVE SplitComma(_)
SplitComma(s) ==
    IF \A i \in 1..Len(s) : s[i] # ","
    THEN <<s>>
    ELSE LET i == CHOOSE k \in 1..Len(s) :
                      s[k] = "," /\ \A j \in 1..(k - 1) : s[j] # ","
         IN <<SubSeq(s, 1, i - 1)>> \o SplitComma(SubSeq(s, i + 1, Len(s)))

\* String.prototype.trim()
RECURSIVE Trim(_)
Trim(s) ==
    IF s = <<>> THEN s
    ELSE IF s[1] = " " THEN Trim(Tail(s))
    ELSE IF s[Len(s)] = " " THEN Trim(SubSeq(s, 1, Len(s) - 1))
    ELSE s

\* .map((s) => s.trim())
MapTrim(list) == [i \in 1..Len(list) |-> Trim(list[i])]

\* .filter(Boolean)
RECURSIVE FilterBoolean(_)
FilterBoolean(list) ==
    IF list = <<>> THEN <<>>
    ELSE IF Head(list) # <<>>
         THEN <<Head(list)>> \o FilterBoolean(Tail(list))
         ELSE FilterBoolean(Tail(list))

\* Array.prototype.includes
Includes(list, x) == \E i \in 1..Len(list) : list[i] = x

Star == Str(<<"*">>)

\* const allowedOrigins = clientUrlEnv && clientUrlEnv !== "*" ? ... : null
ComputeAllowedOriginsNoTrim(env) ==
    IF Truthy(env) /\ env # Star
    THEN Arr(FilterBoolean(SplitComma(env.v)))
    ELSE NullV

ComputeAllowedOrigins(env) ==
    IF Truthy(env) /\ env # Star
    THEN Arr(FilterBoolean(MapTrim(SplitComma(env.v))))
    ELSE NullV

Allow == [err |-> FALSE, allow |-> TRUE]
Block == [err |-> TRUE, allow |-> FALSE]

\* cors({ origin(origin, callback) { ... } })
OriginCallbackAllowAll(origin) == Allow

OriginCallback(origin) ==
    IF ~Truthy(origin) THEN Allow
    ELSE IF ~Truthy(clientUrlEnv) \/ clientUrlEnv = Star THEN Allow
    ELSE IF allowedOrigins.t = "array" /\ Includes(allowedOrigins.v, origin.v)
         THEN Allow
    ELSE Block

NoBody == [message |-> <<>>, people |-> <<>>]

\* res.json({ message: "Hello World!", people: ["Harry", "Jack", "Mary"] })
HomeBodyEchoOrigin ==
    [message |-> <<"Hello World!">>,
     people |-> IF Truthy(reqOrigin) THEN <<"Harry", "Jack">>
                ELSE <<"Harry", "Jack", "Mary">>]

HomeBody ==
    [message |-> <<"Hello World!">>, people |-> <<"Harry", "Jack", "Mary">>]

NoResponse == [status |-> 0, body |-> NoBody, handler |-> FALSE]

\* A request arrives and the cors middleware calls the origin callback.
CorsMiddleware(o) ==
    /\ listening
    /\ stage \in {"idle", "responded"}
    /\ reqOrigin' = o
    /\ corsResult' = OriginCallback(o)
    /\ stage' = IF OriginCallback(o).err THEN "error" ELSE "route"
    /\ UNCHANGED <<clientUrlEnv, allowedOrigins, listening, response,
                   rejectedBefore>>
    /\ UNCHANGED clientVars

\* app.get('/api/home', (req, res) => res.json(...))
HomeRoute ==
    /\ stage = "route"
    /\ response' = [status |-> 200, body |-> HomeBody, handler |-> TRUE]
    /\ stage' = "responded"
    /\ UNCHANGED <<clientUrlEnv, allowedOrigins, listening, reqOrigin,
                   corsResult, rejectedBefore>>
    /\ UNCHANGED clientVars

\* callback(new Error(...)): the error goes to Express's error handling,
\* which answers 500 without running the route; the process keeps listening.
ErrorResponse ==
    /\ stage = "error"
    /\ response' = [status |-> 500, body |-> NoBody, handler |-> FALSE]
    /\ stage' = "responded"
    /\ rejectedBefore' = TRUE
    /\ UNCHANGED <<clientUrlEnv, allowedOrigins, listening, reqOrigin,
                   corsResult>>
    /\ UNCHANGED clientVars

----------------------------------------------------------------------------
\* client/pages/index.tsx

Loads == 1..MaxRuns

NoExc == [kind |-> "none", msg |-> <<>>]
AbortError == [kind |-> "AbortError", msg |-> <<"The operation was aborted.">>]
ErrorOf(m) == [kind |-> "Error", msg |-> m]
NonError == [kind |-> "other", msg |-> <<>>]

\* Rejections of fetch other than cancellation: a TypeError with a message,
\* an Error with an empty message, a thrown value that is not an Error.
FetchFailures == {ErrorOf(<<"Failed to fetch">>), ErrorOf(<<>>), NonError}

\* Responses the server side can produce: status and statusText.
NoResp == [status |-> 0, statusText |-> <<>>]
Responses ==
    {[status |-> 200, statusText |-> <<"OK">>],
     [status |-> 404, statusText |-> <<"Not Found">>],
     [status |-> 500, statusText |-> <<"Internal Server Error">>],
     [status |-> 500, statusText |-> <<>>]}

\* Response.ok
Ok(r) == r.status \in 200..299

DigitChar(d) ==
    CASE d = 0 -> "0" [] d = 1 -> "1" [] d = 2 -> "2" [] d = 3 -> "3"
      [] d = 4 -> "4" [] d = 5 -> "5" [] d = 6 -> "6" [] d = 7 -> "7"
      [] d = 8 -> "8" [] d = 9 -> "9"

\* Number to decimal string, as the template literal converts response.status.
RECURSIVE Digits(_)
Digits(n) ==
    IF n < 10 THEN <<DigitChar(n)>>
    ELSE Digits(n \div 10) \o <<DigitChar(n % 10)>>

\* `Request failed: ${response.status} ${response.statusText}`
HttpMessageNoStatus(r) == <<"Request failed: ">> \o r.statusText

HttpMessage(r) ==
    <<"Request failed: ">> \o Digits(r.status) \o <<" ">> \o r.statusText

\* Parsed JSON bodies: an object with message and people fields (Undefined:
\* the key is absent), or the JSON value null.
MessageFields == {Undefined, NullV, Str(<<"hi">>), Str(<<"Hello World!">>)}
PeopleFields ==
    {Undefined, NullV, Str(<<"Harry">>), Arr(<<>>),
     Arr(<<"Harry", "Jack", "Mary">>), Arr(<<"Mary", "Harry">>)}
NoData == [kind |-> "none", message |-> Undefined, people |-> Undefined]
Bodies ==
    {[kind |-> "object", message |-> m, people |-> p] :
        m \in MessageFields, p \in PeopleFields}
    \cup {[kind |-> "null", message |-> Undefined, people |-> Undefined]}

\* data.message ?? ""
MessageOrDefaultRaw(d) == d.message

MessageOrDefault(d) ==
    IF d.message.t \in {"undefined", "null"} THEN Str(<<>>) ELSE d.message

\* Array.isArray(data.people) ? data.people : []
PeopleOrDefault(d) ==
    IF d.people.t = "array" THEN d.people ELSE Arr(<<>>)

\* e instanceof Error ? e.message : "Failed to load"
ErrorText(e) ==
    IF e.kind \in {"Error", "AbortError"} THEN e.msg ELSE <<"Failed to load">>

Item(k, txt) == [kind |-> k, text |-> txt]

\* The JSX returned by IndexPage, as the sequence of child elements.
Render(l, e, m, p) ==
    (IF l THEN <<Item("indicator", Str(<<"Loading...">>))>> ELSE <<>>)
    \o (IF Truthy(e) THEN <<Item("error", Str(<<"Error: ">> \o e.v))>> ELSE <<>>)
    \o (IF ~l /\ ~Truthy(e) THEN <<Item("message", m)>> ELSE <<>>)
    \o [i \in 1..Len(p.v) |-> Item("person", Str(<<p.v[i]>>))]

NoPre == [message |-> Str(<<>>), people |-> Arr(<<>>)]

\* What React shows once the synchronous code has returned: the render of
\* the batched state, or the previous output if the component is unmounted.
Commit(l, e, m, p) == IF unmounted THEN view ELSE Render(l, e, m, p)

\* React.useEffect(() => { const controller = new AbortController(); ... load();
EffectRun ==
    /\ ~unmounted /\ ~effectActive /\ running = 0
    /\ runs < MaxRuns
    /\ runs' = runs + 1
    /\ effectActive' = TRUE
    /\ running' = runs + 1
    /\ pc' = [pc EXCEPT ![runs + 1] = "setError"]
    /\ aborted' = [aborted EXCEPT ![runs + 1] = FALSE]
    /\ UNCHANGED <<message, people, error, loading, unmounted, resp, data,
                   exc, fetches, pre, lateSetter, view>>
    /\ UNCHANGED serverVars

\* setError(null)
LoadSetErrorNullSkipped(i) ==
    /\ running = i /\ pc[i] = "setError"
    /\ pc' = [pc EXCEPT ![i] = "setLoading"]
    /\ UNCHANGED <<message, people, error, loading, runs, effectActive,
                   unmounted, running, aborted, resp, data, exc, fetches, pre,
                   lateSetter, view>>
    /\ UNCHANGED serverVars

LoadSetErrorNull(i) ==
    /\ running = i /\ pc[i] = "setError"
    /\ error' = NullV
    /\ lateSetter' = (lateSetter \/ unmounted)
    /\ pc' = [pc EXCEPT ![i] = "setLoading"]
    /\ UNCHANGED <<message, people, loading, runs, effectActive, unmounted,
                   running, aborted, resp, data, exc, fetches, pre, view>>
    /\ UNCHANGED serverVars

\* setLoading(true)
LoadSetLoadingTrue(i) ==
    /\ running = i /\ pc[i] = "setLoading"
    /\ loading' = TRUE
    /\ lateSetter' = (lateSetter \/ unmounted)
    /\ pc' = [pc EXCEPT ![i] = "fetch"]
    /\ UNCHANGED <<message, people, error, runs, effectActive, unmounted,
                   running, aborted, resp, data, exc, fetches, pre, view>>
    /\ UNCHANGED serverVars

\* await fetch("/api/home", { signal: controller.signal }): the request is
\* issued and load() suspends; the effect returns its cleanup.
LoadFetch(i) ==
    /\ running = i /\ pc[i] = "fetch"
    /\ fetches' = [fetches EXCEPT ![i] = @ + 1]
    /\ pc' = [pc EXCEPT ![i] = "awaitFetch"]
    /\ running' = 0
    /\ view' = Commit(loading, error, message, people)
    /\ UNCHANGED <<message, people, error, loading, runs, effectActive,
                   unmounted, aborted, resp, data, exc, pre, lateSetter>>
    /\ UNCHANGED serverVars

\* fetch resolves with a Response; if (!response.ok) throw new Error(...)
FetchResolve(i, r) ==
    /\ running = 0 /\ pc[i] = "awaitFetch" /\ ~aborted[i]
    /\ resp' = [resp EXCEPT ![i] = r]
    /\ pre' = [pre EXCEPT ![i] = [message |-> message, people |-> people]]
    /\ IF Ok(r)
       THEN /\ pc' = [pc EXCEPT ![i] = "awaitJson"]
            /\ UNCHANGED <<running, exc>>
       ELSE /\ pc' = [pc EXCEPT ![i] = "catch"]
            /\ exc' = [exc EXCEPT ![i] = ErrorOf(HttpMessage(r))]
            /\ running' = i
    /\ UNCHANGED <<message, people, error, loading, runs, effectActive,
                   unmounted, aborted, data, fetches, lateSetter, view>>
    /\ UNCHANGED serverVars

\* fetch rejects for a reason other than cancellation
FetchReject(i, e) ==
    /\ running = 0 /\ pc[i] = "awaitFetch" /\ ~aborted[i]
    /\ exc' = [exc EXCEPT ![i] = e]
    /\ pc' = [pc EXCEPT ![i] = "catch"]
    /\ running' = i
    /\ UNCHANGED <<message, people, error, loading, runs, effectActive,
                   unmounted, aborted, resp, data, fetches, pre, lateSetter,
                   view>>
    /\ UNCHANGED serverVars

\* the signal was aborted: the pending fetch or body read rejects with a
\* DOMException named AbortError
FetchAbort(i) ==
    /\ running = 0 /\ pc[i] \in {"awaitFetch", "awaitJson"} /\ aborted[i]
    /\ exc' = [exc EXCEPT ![i] = AbortError]
    /\ pc' = [pc EXCEPT ![i] = "catch"]
    /\ running' = i
    /\ UNCHANGED <<message, people, error, loading, runs, effectActive,
                   unmounted, aborted, resp, data, fetches, pre, lateSetter,
                   view>>
    /\ UNCHANGED serverVars

\* const data = await response.json(), the body parses; reading data.message
\* of the JSON value null throws a TypeError
JsonResolve(i, b) ==
    /\ running = 0 /\ pc[i] = "awaitJson" /\ ~aborted[i]
    /\ data' = [data EXCEPT ![i] = b]
    /\ running' = i
    /\ IF b.kind = "object"
       THEN /\ pc' = [pc EXCEPT ![i] = "setMessage"]
            /\ UNCHANGED exc
       ELSE /\ pc' = [pc EXCEPT ![i] = "catch"]
            /\ exc' = [exc EXCEPT ![i] =
                          ErrorOf(<<"Cannot read properties of null">>)]
    /\ UNCHANGED <<message, people, error, loading, runs, effectActive,
                   unmounted, aborted, resp, fetches, pre, lateSetter, view>>
    /\ UNCHANGED serverVars

\* await response.json() rejects: the body is not JSON (SyntaxError)
JsonReject(i) ==
    /\ running = 0 /\ pc[i] = "awaitJson" /\ ~aborted[i]
    /\ exc' = [exc EXCEPT ![i] = ErrorOf(<<"Unexpected token">>)]
    /\ pc' = [pc EXCEPT ![i] = "catch"]
    /\ running' = i
    /\ UNCHANGED <<message, people, error, loading, runs, effectActive,
                   unmounted, aborted, resp, data, fetches, pre, lateSetter,
                   view>>
    /\ UNCHANGED serverVars

\* setMessage(data.message ?? "")
LoadSetMessage(i) ==
    /\ running = i /\ pc[i] = "setMessage"
    /\ message' = MessageOrDefault(data[i])
    /\ lateSetter' = (lateSetter \/ unmounted)
    /\ pc' = [pc EXCEPT ![i] = "setPeople"]
    /\ UNCHANGED <<people, error, loading, runs, effectActive, unmounted,
                   running, aborted, resp, data, exc, fetches, pre, view>>
    /\ UNCHANGED serverVars

\* setPeople(Array.isArray(data.people) ? data.people : [])
LoadSetPeople(i) ==
    /\ running = i /\ pc[i] = "setPeople"
    /\ people' = PeopleOrDefault(data[i])
    /\ lateSetter' = (lateSetter \/ unmounted)
    /\ pc' = [pc EXCEPT ![i] = "finally"]
    /\ UNCHANGED <<message, error, loading, runs, effectActive, unmounted,
                   running, aborted, resp, data, exc, fetches, pre, view>>
    /\ UNCHANGED serverVars

\* catch (e) { if (AbortError) return; setError(...) }
LoadCatch(i) ==
    /\ running = i /\ pc[i] = "catch"
    /\ IF exc[i].kind = "AbortError"
       THEN UNCHANGED <<error, lateSetter>>
       ELSE /\ error' = Str(ErrorText(exc[i]))
            /\ lateSetter' = (lateSetter \/ unmounted)
    /\ pc' = [pc EXCEPT ![i] = "finally"]
    /\ UNCHANGED <<message, people, loading, runs, effectActive, unmounted,
                   running, aborted, resp, data, exc, fetches, pre, view>>
    /\ UNCHANGED serverVars

\* finally { setLoading(false) }: runs on every exit of the try and of the
\* catch, the early return of the catch included; load() then returns.
LoadFinallyRetry(i) ==
    /\ running = i /\ pc[i] = "finally"
    /\ loading' = FALSE
    /\ lateSetter' = (lateSetter \/ unmounted)
    /\ IF exc[i].kind \in {"Error", "other"} /\ fetches[i] < 2
       THEN /\ pc' = [pc EXCEPT ![i] = "awaitFetch"]
            /\ fetches' = [fetches EXCEPT ![i] = @ + 1]
       ELSE /\ pc' = [pc EXCEPT ![i] = "done"]
            /\ UNCHANGED fetches
    /\ running' = 0
    /\ view' = Commit(FALSE, error, message, people)
    /\ UNCHANGED <<message, people, error, runs, effectActive, unmounted,
                   aborted, resp, data, exc, pre>>
    /\ UNCHANGED serverVars

LoadFinally(i) ==
    /\ running = i /\ pc[i] = "finally"
    /\ loading' = FALSE
    /\ lateSetter' = (lateSetter \/ unmounted)
    /\ pc' = [pc EXCEPT ![i] = "done"]
    /\ running' = 0
    /\ view' = Commit(FALSE, error, message, people)
    /\ UNCHANGED <<message, people, error, runs, effectActive, unmounted,
                   aborted, resp, data, exc, fetches, pre>>
    /\ UNCHANGED serverVars

\* return () => controller.abort(): the cleanup, run when the effect is torn
\* down to be run again on the same component instance
Teardown ==
    /\ effectActive /\ running = 0 /\ ~unmounted
    /\ aborted' = [aborted EXCEPT ![runs] = TRUE]
    /\ effectActive' = FALSE
    /\ UNCHANGED <<message, people, error, loading, runs, unmounted, running,
                   pc, resp, data, exc, fetches, pre, lateSetter, view>>
    /\ UNCHANGED serverVars

\* the same cleanup, run when the component is unmounted
Unmount ==
    /\ effectActive /\ running = 0 /\ ~unmounted
    /\ aborted' = [aborted EXCEPT ![runs] = TRUE]
    /\ effectActive' = FALSE
    /\ unmounted' = TRUE
    /\ view' = <<>>
    /\ UNCHANGED <<message, people, error, loading, runs, running, pc, resp,
                   data, exc, fetches, pre, lateSetter>>
    /\ UNCHANGED serverVars

----------------------------------------------------------------------------
\* Specifications

\* The server alone: the client half stays in its initial state.
ServerNext ==
    \/ \E o \in OriginValues : CorsMiddleware(o)
    \/ HomeRoute
    \/ ErrorResponse

\* The server after startup, for every value of CLIENT_URL; IndexPage after
\* its first render.
ServerInit ==
    /\ clientUrlEnv \in EnvValues
    /\ allowedOrigins = ComputeAllowedOrigins(clientUrlEnv)
    /\ listening = TRUE
    /\ stage = "idle"
    /\ reqOrigin = Undefined
    /\ corsResult = Allow
    /\ response = NoResponse
    /\ rejectedBefore = FALSE
    /\ message = Str(<<>>)
    /\ people = Arr(<<>>)
    /\ error = NullV
    /\ loading = TRUE
    /\ runs = 0
    /\ effectActive = FALSE
    /\ unmounted = FALSE
    /\ running = 0
    /\ pc = [i \in Loads |-> "idle"]
    /\ aborted = [i \in Loads |-> FALSE]
    /\ resp = [i \in Loads |-> NoResp]
    /\ data = [i \in Loads |-> NoData]
    /\ exc = [i \in Loads |-> NoExc]
    /\ fetches = [i \in Loads |-> 0]
    /\ pre = [i \in Loads |-> NoPre]
    /\ lateSetter = FALSE
    /\ view = Render(TRUE, NullV, Str(<<>>), Arr(<<>>))

ServerSpec == ServerInit /\ [][ServerNext]_vars

\* The client alone: the server half is a server started without CLIENT_URL.
ClientInit ==
    /\ clientUrlEnv = Undefined
    /\ allowedOrigins = ComputeAllowedOrigins(clientUrlEnv)
    /\ listening = TRUE
    /\ stage = "idle"
    /\ reqOrigin = Undefined
    /\ corsResult = Allow
    /\ response = NoResponse
    /\ rejectedBefore = FALSE
    /\ message = Str(<<>>)
    /\ people = Arr(<<>>)
    /\ error = NullV
    /\ loading = TRUE
    /\ runs = 0
    /\ effectActive = FALSE
    /\ unmounted = FALSE
    /\ running = 0
    /\ pc = [i \in Loads |-> "idle"]
    /\ aborted = [i \in Loads |-> FALSE]
    /\ resp = [i \in Loads |-> NoResp]
    /\ data = [i \in Loads |-> NoData]
    /\ exc = [i \in Loads |-> NoExc]
    /\ fetches = [i \in Loads |-> 0]
    /\ pre = [i \in Loads |-> NoPre]
    /\ lateSetter = FALSE
    /\ view = Render(TRUE, NullV, Str(<<>>), Arr(<<>>))

ClientNext ==
    \/ EffectRun
    \/ \E i \in Loads : LoadSetErrorNull(i)
    \/ \E i \in Loads : LoadSetLoadingTrue(i)
    \/ \E i \in Loads : LoadFetch(i)
    \/ \E i \in Loads, r \in Responses : FetchResolve(i, r)
    \/ \E i \in Loads, e \in FetchFailures : FetchReject(i, e)
    \/ \E i \in Loads : FetchAbort(i)
    \/ \E i \in Loads, b \in Bodies : JsonResolve(i, b)
    \/ \E i \in Loads : JsonReject(i)
    \/ \E i \in Loads : LoadSetMessage(i)
    \/ \E i \in Loads : LoadSetPeople(i)
    \/ \E i \in Loads : LoadCatch(i)
    \/ \E i \in Loads : LoadFinally(i)
    \/ Teardown
    \/ Unmount

ClientSpec == ClientInit /\ [][ClientNext]_vars

----------------------------------------------------------------------------
\* Properties of the server

\* e is one of the comma-separated, trimmed, non-empty entries of s: e is
\* non-empty, has no comma and no space at either end, and some maximal
\* comma-free segment of s is e with spaces around it.
IsEntry(e, s) ==
    /\ e # <<>>
    /\ \A k \in 1..Len(e) : e[k] # ","
    /\ e[1] # " " /\ e[Len(e)] # " "
    /\ \E i \in 1..Len(s), j \in 1..Len(s) :
         /\ i <= j
         /\ (i = 1 \/ s[i - 1] = ",")
         /\ (j = Len(s) \/ s[j + 1] = ",")
         /\ \A k \in i..j : s[k] # ","
         /\ \E a \in i..j, b \in i..j :
              /\ a <= b
              /\ SubSeq(s, a, b) = e
              /\ \A k \in i..(a - 1) : s[k] = " "
              /\ \A k \in (b + 1)..j : s[k] = " "

OriginInList == reqOrigin.t = "string" /\ clientUrlEnv.t = "string"
                /\ IsEntry(reqOrigin.v, clientUrlEnv.v)

Decided == stage \in {"route", "error", "responded"}

\* C1 as stated: the origin callback allows the request iff CLIENT_URL is
\* unset or "*", or the request has no Origin, or the Origin equals one of the
\* comma-separated, trimmed, non-empty entries of CLIENT_URL.
C1_AllowIffAsStated ==
    Decided =>
        (corsResult.allow <=>
            \/ clientUrlEnv = Undefined
            \/ clientUrlEnv = Star
            \/ reqOrigin = Undefined
            \/ OriginInList)

\* C1 amended: the origin callback allows the request iff CLIENT_URL is unset,
\* empty or "*", or the Origin is absent or empty, or the Origin equals one of
\* the entries of CLIENT_URL; otherwise it rejects with an error.
C1_AllowIff ==
    Decided =>
        /\ corsResult.allow <=>
              \/ clientUrlEnv \in {Undefined, Str(<<>>), Star}
              \/ reqOrigin \in {Undefined, Str(<<>>)}
              \/ OriginInList
        /\ corsResult.err <=> ~corsResult.allow

\* An Origin is allowed because it matches an entry of a CLIENT_URL that has
\* a comma to split at and a space to trim.
C1_Witness ==
    /\ stage = "route"
    /\ Truthy(reqOrigin)
    /\ allowedOrigins.t = "array"
    /\ Includes(allowedOrigins.v, reqOrigin.v)
    /\ \E k \in 1..Len(clientUrlEnv.v) : clientUrlEnv.v[k] = " "
    /\ \E k \in 1..Len(clientUrlEnv.v) : clientUrlEnv.v[k] = ","

AllowlistConfigured == Truthy(clientUrlEnv) /\ clientUrlEnv # Star

C8_Idempotent ==
    /\ [](response.handler =>
            /\ response.status = 200
            /\ response.body =
                 [message |-> <<"Hello World!">>,
                  people |-> <<"Harry", "Jack", "Mary">>])
    /\ [][/\ clientUrlEnv' = clientUrlEnv
          /\ allowedOrigins' = allowedOrigins
          /\ listening' = listening]_vars

\* A request with an Origin is being answered by the handler after an earlier
\* answer by the handler and a rejection.
C8_Witness ==
    /\ rejectedBefore
    /\ stage = "route"
    /\ Truthy(reqOrigin)
    /\ response.handler

----------------------------------------------------------------------------
\* Properties of the client

InFlight(i) == pc[i] \in {"awaitFetch", "awaitJson"}

\* The fetch of load i was cancelled before it settled.
Cancelled(i) == aborted[i] /\ (InFlight(i) \/ exc[i].kind = "AbortError")

\* C2: when IndexPage is unmounted before its fetch settles, the request is
\* aborted, no state setter is called from the unmount onward, and error
\* stays null.
C2_CancellationSafety ==
    (unmounted /\ Cancelled(runs)) =>
        /\ aborted[runs]
        /\ ~lateSetter
        /\ error = NullV

ExactlyOne(a, b, c) ==
    (a /\ ~b /\ ~c) \/ (~a /\ b /\ ~c) \/ (~a /\ ~b /\ c)

DisplayKinds == {view[k].kind : k \in 1..Len(view)} \ {"person"}

\* C3 as stated: in every state after mount, the states between the setter
\* calls of load included, exactly one of the loading indicator (loading),
\* the error message (error non-null) and the loaded message (neither) is
\* active: loading and a non-null error never hold together.
C3_OneDisplayAsStated ==
    runs >= 1 =>
        /\ ExactlyOne(loading, error # NullV, ~loading /\ error = NullV)
        /\ ~(loading /\ error # NullV)

\* C3 amended: in every state after mount in which no load() is between two
\* of its synchronous setter calls (the states React renders), exactly one
\* display is active, loading and a non-null error never hold together, and
\* the rendered output holds exactly one of the three display elements.
C3_OneDisplay ==
    (runs >= 1 /\ running = 0) =>
        /\ ExactlyOne(loading, error # NullV, ~loading /\ error = NullV)
        /\ ~(loading /\ error # NullV)
        /\ ~unmounted =>
              /\ Cardinality(DisplayKinds) = 1
              /\ Cardinality({k \in 1..Len(view) : view[k].kind # "person"}) = 1

\* The second load has started after the first one failed: the indicator is
\* shown and the error of the first load is cleared.
C3_Witness ==
    /\ runs = 2 /\ running = 0
    /\ pc[1] = "done" /\ exc[1].kind = "Error"
    /\ InFlight(2)
    /\ loading /\ error = NullV

Contains(s, sub) ==
    \E k \in 0..(Len(s) - Len(sub)) : SubSeq(s, k + 1, k + Len(sub)) = sub

StatusCodeText(n) ==
    CASE n = 404 -> <<"4", "0", "4">>
      [] n = 500 -> <<"5", "0", "0">>
      [] OTHER -> <<"?">>

HttpFailed(i) == resp[i].status # 0 /\ ~Ok(resp[i])

\* C4: when the fetch resolves with a non-success status, load ends with
\* loading = false and error a message that contains the status code and the
\* status text, and message and people are those held when the response came.
C4_HttpError ==
    \A i \in Loads :
        (i = runs /\ pc[i] = "done" /\ HttpFailed(i)) =>
            /\ loading = FALSE
            /\ error.t = "string"
            /\ Contains(error.v, StatusCodeText(resp[i].status))
            /\ Contains(error.v, resp[i].statusText)
            /\ message = pre[i].message
            /\ people = pre[i].people

\* A second load ended on a 500 after a first load had stored a message and
\* three people.
C4_Witness ==
    /\ runs = 2 /\ pc[2] = "done"
    /\ resp[2].status = 500 /\ resp[2].statusText # <<>>
    /\ people = Arr(<<"Harry", "Jack", "Mary">>)
    /\ message = Str(<<"Hello World!">>)
    /\ error # NullV

Succeeded(i) == i = runs /\ pc[i] = "done" /\ data[i].kind = "object"

\* C5 as stated: after a successful response with an object body, load ends
\* in Loaded with message the body's message, or "" if it is absent, and
\* people the body's people if it is a sequence, or [] otherwise.
C5_DefaultsAsStated ==
    \A i \in Loads :
        Succeeded(i) =>
            /\ loading = FALSE /\ error = NullV
            /\ message = IF data[i].message = Undefined THEN Str(<<>>)
                         ELSE data[i].message
            /\ people = IF data[i].people.t = "array" THEN data[i].people
                        ELSE Arr(<<>>)

\* C5 amended: as stated, with message "" if the body's message is absent
\* or null.
C5_Defaults ==
    \A i \in Loads :
        Succeeded(i) =>
            /\ loading = FALSE /\ error = NullV
            /\ message = IF data[i].message \in {Undefined, NullV} THEN Str(<<>>)
                         ELSE data[i].message
            /\ people = IF data[i].people.t = "array" THEN data[i].people
                        ELSE Arr(<<>>)

\* The body {"message":"hi"} gave Loaded("hi", []) on a load that followed
\* one which had stored people.
C5_Witness ==
    /\ runs = 2 /\ Succeeded(2)
    /\ data[1].people = Arr(<<"Mary", "Harry">>)
    /\ data[2].message = Str(<<"hi">>) /\ data[2].people = Undefined
    /\ message = Str(<<"hi">>) /\ people = Arr(<<>>)
    /\ ~loading

\* C6: each run of the effect issues exactly one fetch, at the await of
\* load, and none after that fetch has settled, whatever the outcome.
C6_OneFetchPerMount ==
    \A i \in Loads :
        fetches[i] =
            IF i <= runs /\ pc[i] \notin {"idle", "setError", "setLoading", "fetch"}
            THEN 1 ELSE 0

\* Both loads are over, the first cancelled and the second failed, with one
\* fetch each.
C6_Witness ==
    /\ runs = 2 /\ running = 0
    /\ pc[1] = "done" /\ exc[1].kind = "AbortError"
    /\ pc[2] = "done" /\ exc[2].kind \in {"Error", "other"}
    /\ fetches[1] = 1 /\ fetches[2] = 1

\* C9: when the effect is torn down and run again before the first fetch
\* settles, at most one fetch that is not cancelled is in flight, and loading
\* stays true while the fetch of the second run is in flight.
C9_RemountIsolation ==
    /\ Cardinality({i \in Loads : InFlight(i) /\ ~aborted[i]}) <= 1
    /\ \A i \in Loads :
          (i >= 2 /\ i = runs /\ Cancelled(i - 1) /\ InFlight(i)
                /\ ~aborted[i] /\ running = 0)
            => loading = TRUE

ViewKinds == {view[k].kind : k \in 1..Len(view)}
ViewPersons ==
    LET idx == {k \in 1..Len(view) : view[k].kind = "person"}
    IN [k \in 1..Cardinality(idx) |-> view[Len(view) - Cardinality(idx) + k].text]

\* C10: whenever the loading indicator or the error message is rendered, no
\* person item is rendered; in Loaded the rendered output is the message
\* followed by the people in order.
C10_PeopleOnlyWhenLoaded ==
    ~unmounted =>
        /\ (("indicator" \in ViewKinds \/ "error" \in ViewKinds)
              => "person" \notin ViewKinds)
        /\ ("message" \in ViewKinds =>
              /\ view[1].kind = "message"
              /\ \A k \in 2..Len(view) : view[k].kind = "person"
              /\ ViewPersons = [k \in 1..Len(people.v) |-> Str(<<people.v[k]>>)])

====
